---------------------------- MODULE Spec2Model ----------------------------
(***************************************************************************)
(* GuruFocusISINMatcher: the sequential batch matcher of                   *)
(* src/unnamed/part_000 (lines 124-598), with per-record browser-context   *)
(* refresh and a periodic save of the matches CSV, and where they differ   *)
(* the older class of src/gurufocus_isin_matcher.js (variant = Older).     *)
(*                                                                         *)
(* Three specifications share the variables:                               *)
(*   Spec         run() called on a constructed matcher;                   *)
(*   SpecCli      the command line, then run();                            *)
(*   SpecExtract  one call of extractISINFromPage on a page whose text is  *)
(*                a sequence of characters.                                *)
(*                                                                         *)
(* In Spec and SpecCli texts (company names, ISIN codes, urls, file        *)
(* pieces) are atomic string tokens and a file's content is the sequence   *)
(* of the tokens written to it. The web site is an environment that is     *)
(* fixed for one run: the search outcome of the company "Acme Corp" is     *)
(* drawn in Init, the other companies and all stock pages have a fixed     *)
(* outcome.                                                                *)
(***************************************************************************)
EXTENDS Integers, Sequences, FiniteSets, TLC

VARIABLES
    pc,            \* position of the command line / run() / processCompanies()
    argv,          \* process.argv from index 2 on
    exitCode,      \* the code passed to process.exit, 0 while it was not called
    variant,       \* which of the two source files of the matcher is running
    inputFile,     \* db_initial.csv
    companies,     \* result of readCSV
    maxCompanies,  \* run()'s argument (0 stands for null / falsy)
    toProcess,     \* companiesToProcess
    i,             \* loop variable of processCompanies
    result,        \* processCompany's local result object
    stockLinks,    \* processCompany's local candidate list
    j,             \* position of the for-of loop over stockLinks (1-based)
    visited,       \* urls handed to extractISINFromPage for the current record
    searched,      \* company names handed to searchCompany, in call order
    results,       \* this.results
    matchesFile,   \* gurufocus_matches.csv
    jsonFile,      \* gurufocus_results.json
    session,       \* this.browser / this.context / this.page and what is live
    ioError,       \* TRUE once an fs.writeFileSync call of this run has thrown
    acmeSearch,    \* environment: what the site answers to the search "Acme Corp"
    mainError,     \* the exception caught by run()'s catch block, NULL if none
    x              \* one call of extractISINFromPage on a page given as characters

vars == << pc, argv, exitCode, variant, inputFile, companies, maxCompanies,
           toProcess, i, result, stockLinks, j, visited, searched, results,
           matchesFile, jsonFile, session, ioError, acmeSearch, mainError, x >>

\* what run() and the steps below it never assign
outerVars == << argv, exitCode, variant, inputFile, x >>

---------------------------------------------------------------------------
(* Bounds of the model *)

MaxCompanies == 11
MaxLinks == 3
MaxSegs == 3

(* Program constants *)

SaveEvery == 10
\* the quantifiers {2} and {10} of the three identifier patterns
CodeLetters == 2
CodeRest == 10

---------------------------------------------------------------------------
(* Values *)

NULL == "<null>"
NoFile == << "<no file>" >>
NoJson == << >>

Truthy(v) == v # NULL /\ v # ""

Min(a, b) == IF a < b THEN a ELSE b

RECURSIVE SelectIdx(_, _, _)
\* the positions p >= from of the records of s with status st, ascending (filter)
SelectIdx(s, from, st) ==
    IF from > Len(s) THEN << >>
    ELSE IF s[from].status = st
         THEN << from >> \o SelectIdx(s, from + 1, st)
         ELSE SelectIdx(s, from + 1, st)

---------------------------------------------------------------------------
(* Environment: the input file and the web site *)

ISIN_US == "US0000011111"
ISIN_GB == "GB0000022222"
ISIN_FR == "FR0000033333"

Acme == [companyName |-> "Acme Corp", isinCode |-> ISIN_US]
Beta == [companyName |-> "Beta Inc", isinCode |-> ISIN_GB]
\* a name holding a lone surrogate: encodeURIComponent throws URIError on it
Gamma == [companyName |-> "Gamma \\uD800", isinCode |-> ISIN_GB]

Delta == [companyName |-> "Delta SA", isinCode |-> ISIN_FR]

Catalogue == << Acme, Beta, Gamma, Delta >>

URL_US   == "https://www.gurufocus.com/stock/ACME/summary"
URL_GB   == "https://www.gurufocus.com/stock/LSE:BETA/summary"
URL_FR   == "https://www.gurufocus.com/stock/XPAR:OLD,PA/summary"
URL_NONE == "https://www.gurufocus.com/stock/NONE/summary"
URL_SLOW == "https://www.gurufocus.com/stock/SLOW/summary"

Urls == { URL_US, URL_GB, URL_FR, URL_NONE, URL_SLOW }

\* What the three page.evaluate calls of extractISINFromPage compute on the
\* page behind a url, and whether page.goto succeeds on it.
Page(url) ==
    CASE url = URL_US   -> [goto |-> TRUE,  labeled |-> ISIN_US, bare |-> ISIN_US, node |-> ISIN_US]
      [] url = URL_GB   -> [goto |-> TRUE,  labeled |-> NULL,    bare |-> ISIN_GB, node |-> ISIN_GB]
      [] url = URL_FR   -> [goto |-> TRUE,  labeled |-> NULL,    bare |-> NULL,    node |-> ISIN_FR]
      [] url = URL_NONE -> [goto |-> TRUE,  labeled |-> NULL,    bare |-> NULL,    node |-> NULL]
      [] OTHER          -> [goto |-> FALSE, labeled |-> ISIN_US, bare |-> ISIN_US, node |-> ISIN_US]

Link(url) == [url |-> url, text |-> "T", ticker |-> "T"]

RECURSIVE LinkLists(_)
\* all candidate lists of length at most n
LinkLists(n) ==
    IF n = 0 THEN { << >> }
    ELSE LET shorter == LinkLists(n - 1)
         IN  shorter \cup { Append(l, Link(u)) : l \in { s \in shorter : Len(s) = n - 1 }, u \in Urls }

\* The outcome of the search step: page.goto throws, page.evaluate throws,
\* or the evaluation returns a list of links.
SearchOutcomes ==
    { [kind |-> "gotoThrows", links |-> << >>], [kind |-> "evaluateThrows", links |-> << >>] }
    \cup { [kind |-> "links", links |-> l] : l \in LinkLists(MaxLinks) }

SiteSearch(name) ==
    CASE name = Acme.companyName -> acmeSearch
      [] name = Delta.companyName -> [kind |-> "links", links |-> << Link(URL_GB), Link(URL_FR) >>]
      [] OTHER -> [kind |-> "links", links |-> << >>]

\* encodeURIComponent throws URIError when the string holds a lone surrogate
HasLoneSurrogate(name) == name = Gamma.companyName

\* The input lists: n records that cycle through the catalogue
InputList(start, stride, n) ==
    [ k \in 1..n |-> Catalogue[((start + (k - 1) * stride) % Len(Catalogue)) + 1] ]

\* batch sizes: the empty file, one record, and one that passes the periodic save
InputSizes == { 0, 1, MaxCompanies }

\* the same company n times (stride 0) or the catalogue in rotation (stride 1)
InputLists ==
    { InputList(start, 0, n) : start \in 0..(Len(Catalogue) - 1), n \in InputSizes }
    \cup { InputList(0, 1, n) : n \in InputSizes }

\* run()'s argument: no cap, or a cap (above the batch size 1, below the others)
Caps == { 0, 2 }

StaleMatches ==
    << "Company Name,ISIN Code,GuruFocus URL", "\n", "Old Co", ",", ISIN_FR, ",", URL_FR >>

\* gurufocus_matches.csv before the run: absent, or left by an earlier run
InitialMatches == { NoFile, StaleMatches }

\* the two source files of the matcher
Newer == "unnamed/part_000"
Older == "gurufocus_isin_matcher.js"
Variants == { Newer, Older }

\* db_initial.csv: a file that cannot be read, or the records of its data lines
Unreadable == [readable |-> FALSE, rows |-> << >>]
InputFiles == { [readable |-> TRUE, rows |-> l] : l \in InputLists } \cup { Unreadable }

\* constructor: this.headless computed from options.headless, which is
\* "undefined", "true" or "false" (part_000 line 131, gurufocus_isin_matcher.js line 7)
ConstructHeadless(v, opt) == IF v = Newer THEN opt # "false" ELSE opt # "true"

\* the object after new GuruFocusISINMatcher(options): browser, context and
\* page are null (0); launched is the headless option handed to
\* puppeteer.launch; inContext is the context the page was opened in;
\* searchGotos counts the navigations to the search url made for the current
\* record; closeThrew names the call on which close() threw, "none" when it
\* returned, "no" while it has not run; the rest records what is live in the
\* browser
Constructed(v, opt) ==
    [browser |-> "null", context |-> 0, page |-> 0, headless |-> ConstructHeadless(v, opt),
     launched |-> "no", inContext |-> 0, usedContexts |-> << >>, searchGotos |-> 0,
     closeThrew |-> "no",
     liveContexts |-> {}, livePages |-> {}, made |-> 0]

NoSession == Constructed(Newer, "undefined")

---------------------------------------------------------------------------
(* Pure parts of the program *)

\* readCSV, lines 144-161: the records with both fields non-empty, [] when
\* reading throws
ReadCSV(file) ==
    IF file.readable
    THEN SelectSeq(file.rows, LAMBDA c : c.companyName # "" /\ c.isinCode # "")
    ELSE << >>

\* processCompanies with a slice that ends one element late
CompaniesToProcess_OneMore(cs, max) ==
    IF max # 0 THEN SubSeq(cs, 1, Min(max + 1, Len(cs))) ELSE cs

\* processCompanies, line 411
CompaniesToProcess(cs, max) ==
    IF max # 0 THEN SubSeq(cs, 1, Min(max, Len(cs))) ELSE cs

\* run(), lines 543-546
ClampMax(max, n) == IF max # 0 /\ max > n THEN n ELSE max

\* processCompany, lines 330-336
NewResult(company) ==
    [companyName |-> company.companyName, expectedISIN |-> company.isinCode,
     foundISIN |-> NULL, matchingURL |-> NULL, status |-> "not_found", error |-> NULL]

\* searchCompany without its try/catch: a failure of page.goto or page.evaluate
\* propagates to the caller
SearchCompany_NoCatch(name) ==
    LET o == SiteSearch(name)
    IN  IF HasLoneSurrogate(name) THEN [threw |-> "URI malformed", links |-> << >>]
        ELSE IF o.kind = "links" THEN [threw |-> NULL, links |-> o.links]
        ELSE [threw |-> o.kind, links |-> << >>]

\* searchCompany, lines 195-258: the url is built outside the try (line 196),
\* every failure inside the try yields [] (lines 254-257)
SearchCompany(name) ==
    LET o == SiteSearch(name)
    IN  IF HasLoneSurrogate(name) THEN [threw |-> "URI malformed", links |-> << >>]
        ELSE IF o.kind = "links" THEN [threw |-> NULL, links |-> o.links]
        ELSE [threw |-> NULL, links |-> << >>]

\* searchCompany: the number of page.goto calls it makes, the one of line 201
\* unless line 196 throws before it
SearchGotos(name) == IF HasLoneSurrogate(name) THEN 0 ELSE 1

\* processCompany without the test for an empty candidate list
AfterSearch_NoEmptyCheck(r, s) ==
    IF s.threw # NULL
    THEN [result |-> [r EXCEPT !.status = "error", !.error = s.threw], pc |-> "push"]
    ELSE [result |-> r, pc |-> "checkLink"]

\* processCompany returning early on an empty list without setting the status
AfterSearch_ForgetStatus(r, s) ==
    IF s.threw # NULL
    THEN [result |-> [r EXCEPT !.status = "error", !.error = s.threw], pc |-> "push"]
    ELSE IF Len(s.links) = 0
         THEN [result |-> r, pc |-> "push"]
         ELSE [result |-> r, pc |-> "checkLink"]

\* processCompany, lines 338-346 and 373-377: what follows the search
AfterSearch(r, s) ==
    IF s.threw # NULL
    THEN [result |-> [r EXCEPT !.status = "error", !.error = s.threw], pc |-> "push"]
    ELSE IF Len(s.links) = 0
         THEN [result |-> [r EXCEPT !.status = "no_results"], pc |-> "push"]
         ELSE [result |-> r, pc |-> "checkLink"]

\* extractISINFromPage reading the page although page.goto threw
ExtractISINFromPage_IgnoreGoto(url) ==
    LET p  == Page(url)
        m1 == p.labeled
        m2 == IF ~Truthy(m1) THEN p.bare ELSE m1
    IN  IF ~Truthy(m2) THEN p.node ELSE m2

\* extractISINFromPage, lines 263-322
ExtractISINFromPage(url) ==
    LET p  == Page(url)
        m1 == p.labeled
        m2 == IF ~Truthy(m1) THEN p.bare ELSE m1
        m3 == IF ~Truthy(m2) THEN p.node ELSE m2
    IN  IF p.goto THEN m3 ELSE NULL

\* the loop body accepting any extracted identifier as a match
CheckLink_AnyFound(r, link, foundISIN) ==
    IF Truthy(foundISIN)
    THEN [r EXCEPT !.foundISIN = foundISIN, !.matchingURL = link.url, !.status = "matched"]
    ELSE r

\* the loop body keeping the first extracted identifier instead of the latest
CheckLink_KeepFirst(r, link, foundISIN) ==
    IF Truthy(foundISIN)
    THEN IF foundISIN = r.expectedISIN
         THEN [r EXCEPT !.foundISIN = foundISIN, !.matchingURL = link.url, !.status = "matched"]
         ELSE IF r.foundISIN = NULL THEN [r EXCEPT !.foundISIN = foundISIN] ELSE r
    ELSE r

\* the loop body recording the url before it compares the identifier
CheckLink_UrlBeforeCompare(r, link, foundISIN) ==
    IF Truthy(foundISIN)
    THEN IF foundISIN = r.expectedISIN
         THEN [r EXCEPT !.foundISIN = foundISIN, !.matchingURL = link.url, !.status = "matched"]
         ELSE [r EXCEPT !.foundISIN = foundISIN, !.matchingURL = link.url]
    ELSE r

\* processCompany, lines 353-364: the body of the loop for one candidate
CheckLink(r, link, foundISIN) ==
    IF Truthy(foundISIN)
    THEN IF foundISIN = r.expectedISIN
         THEN [r EXCEPT !.foundISIN = foundISIN, !.matchingURL = link.url, !.status = "matched"]
         ELSE [r EXCEPT !.foundISIN = foundISIN]
    ELSE r

\* saveMatchesCSV, line 449
CsvRow(r) == << r.companyName, ",", r.expectedISIN, ",", r.matchingURL >>

RECURSIVE JoinRows(_, _, _)
\* rows of the records at positions idx[k..] of rs, joined by "\n"
JoinRows(rs, idx, k) ==
    IF k > Len(idx) THEN << >>
    ELSE IF k = Len(idx) THEN CsvRow(rs[idx[k]])
    ELSE CsvRow(rs[idx[k]]) \o << "\n" >> \o JoinRows(rs, idx, k + 1)

\* saveMatchesCSV without the filter on the status
CsvResults_NoFilter(rs) == JoinRows(rs, [k \in 1..Len(rs) |-> k], 1)

\* saveMatchesCSV, lines 447-450
CsvResults(rs) == JoinRows(rs, SelectIdx(rs, 1, "matched"), 1)

CsvHeader == << "Company Name,ISIN Code,GuruFocus URL", "\n" >>

WriteOutcomes == { "ok", "throwsUnchanged", "throwsTruncated" }

\* fs.writeFileSync(file, content) with outcome w: the new content of the file
WriteFile(old, content, w) ==
    CASE w = "ok" -> content
      [] w = "throwsUnchanged" -> old
      [] OTHER -> << >>

\* saveMatchesCSV appending to the file instead of replacing it
SaveMatchesCSV_Append(rs, old, w) ==
    IF CsvResults(rs) # << >>
    THEN [file |-> WriteFile(old, (IF old = NoFile THEN << >> ELSE old \o << "\n" >>)
                                  \o CsvHeader \o CsvResults(rs), w),
          returned |-> (w = "ok"), threw |-> (w # "ok")]
    ELSE [file |-> old, returned |-> FALSE, threw |-> FALSE]

\* saveMatchesCSV, lines 445-462: the content of gurufocus_matches.csv after
\* it, and what it returns
SaveMatchesCSV(rs, old, w) ==
    IF CsvResults(rs) # << >>
    THEN [file |-> WriteFile(old, CsvHeader \o CsvResults(rs), w),
          returned |-> (w = "ok"), threw |-> (w # "ok")]
    ELSE [file |-> old, returned |-> FALSE, threw |-> FALSE]

\* the record put at the front of this.results instead of the end
Unshift(rs, r) == << r >> \o rs

\* processCompanies, line 424
Push(rs, r) == Append(rs, r)

\* processCompanies, line 427
SaveDue(n) == n % SaveEvery = 0

CountStatus(rs, st) == Len(SelectIdx(rs, 1, st))

\* saveResults with the 'no_match' filter of line 473 testing the initial status
JsonOutput_CountNotFound(rs) ==
    [totalProcessed |-> Len(rs),
     matched |-> CountStatus(rs, "matched"),
     notMatched |-> CountStatus(rs, "not_found"),
     noResults |-> CountStatus(rs, "no_results"),
     errors |-> CountStatus(rs, "error"),
     results |-> rs]

\* saveResults, lines 469-477
JsonOutput(rs) ==
    [totalProcessed |-> Len(rs),
     matched |-> CountStatus(rs, "matched"),
     notMatched |-> CountStatus(rs, "no_match"),
     noResults |-> CountStatus(rs, "no_results"),
     errors |-> CountStatus(rs, "error"),
     results |-> rs]

---------------------------------------------------------------------------
(* extractISINFromPage on pages given as sequences of characters *)

\* the characters of the pages
UpperLetters == { "B", "G", "I", "N", "S", "U", "X" }
LowerLetters == { "i", "n", "s", "u" }
Digits == { "0", "1", "2" }
Spaces == { " " }

\* the result null of extractISINFromPage; no pattern matches the empty string
Nothing == << >>

\* the upper-case form of a character (canonicalisation under the flag i)
ToUpper(c) ==
    CASE c = "i" -> "I" [] c = "n" -> "N" [] c = "s" -> "S" [] c = "u" -> "U" [] OTHER -> c

\* [A-Z] and [A-Z0-9]; ci is TRUE when the pattern carries the flag i
InAZ(c, ci) == (IF ci THEN ToUpper(c) ELSE c) \in UpperLetters
InAZ09(c, ci) == InAZ(c, ci) \/ c \in Digits

CodeLen == CodeLetters + CodeRest

\* [A-Z]{2}[A-Z0-9]{10} matches t from position p on
CodeAt(t, p, ci) ==
    /\ p >= 1
    /\ p + CodeLen - 1 <= Len(t)
    /\ \A k \in 0..(CodeLetters - 1) : InAZ(t[p + k], ci)
    /\ \A k \in CodeLetters..(CodeLen - 1) : InAZ09(t[p + k], ci)

RECURSIVE SkipSpaces(_, _)
\* \s* from position p on: the position after the white space
SkipSpaces(t, p) ==
    IF p <= Len(t) /\ t[p] \in Spaces THEN SkipSpaces(t, p + 1) ELSE p

LabelText == << "I", "S", "I", "N" >>

\* /ISIN\s*[:]\s*([A-Z]{2}[A-Z0-9]{10})/i matches t from position p on: the
\* position where the group starts, 0 when there is no match at p
LabeledAt(t, p) ==
    IF /\ p + Len(LabelText) - 1 <= Len(t)
       /\ \A k \in 1..Len(LabelText) : ToUpper(t[p + k - 1]) = LabelText[k]
    THEN LET colon == SkipSpaces(t, p + Len(LabelText))
         IN  IF colon <= Len(t) /\ t[colon] = ":"
             THEN LET code == SkipSpaces(t, colon + 1)
                  IN  IF CodeAt(t, code, TRUE) THEN code ELSE 0
             ELSE 0
    ELSE 0

Least(S) == CHOOSE p \in S : \A q \in S : p <= q

\* Method 1, lines 272-281: group 1 of the leftmost match of the labeled pattern
Method1(t) ==
    LET hits == { p \in 1..Len(t) : LabeledAt(t, p) # 0 }
    IN  IF hits = {} THEN Nothing
        ELSE LET code == LabeledAt(t, Least(hits))
             IN  SubSeq(t, code, code + CodeLen - 1)

\* Method 2, lines 283-294: the first match of /([A-Z]{2}[A-Z0-9]{10})/g
Method2(t) ==
    LET hits == { p \in 1..Len(t) : CodeAt(t, p, FALSE) }
    IN  IF hits = {} THEN Nothing
        ELSE SubSeq(t, Least(hits), Least(hits) + CodeLen - 1)

\* Method 3, lines 296-314: group 1 of the match in the first element, in
\* document order, whose text matches /([A-Z]{2}[A-Z0-9]{10})/
Method3(nodes) ==
    LET hits == { k \in 1..Len(nodes) : Method2(nodes[k]) # Nothing }
    IN  IF hits = {} THEN Nothing ELSE Method2(nodes[Least(hits)])

\* the test if (!isin) of lines 284 and 297, without its negated operand
NotFoundYet_Always(isin) == TRUE

\* the test if (!isin) of lines 284 and 297
NotFoundYet(isin) == isin = Nothing

\* the pieces of text the page bodies are made of
SegLabel    == << "I", "S", "I", "N", ":" >>
SegLabelLow == << "i", "s", "i", "n", " ", ":", " " >>
SegWord     == << "I", "S", "I", "N" >>
SegUS       == << "U", "S", "0", "0", "0", "0", "0", "1", "1", "1", "1", "1" >>
SegGB       == << "G", "B", "0", "0", "0", "0", "0", "2", "2", "2", "2", "2" >>
SegLow      == << "u", "s", "0", "0", "0", "0", "0", "1", "1", "1", "1", "1" >>
SegX        == << "X" >>
SegSp       == << " " >>

Segments == { SegLabel, SegLabelLow, SegWord, SegUS, SegGB, SegLow, SegX, SegSp }

RECURSIVE SegLists(_)
\* all sequences of at most n segments
SegLists(n) ==
    IF n = 0 THEN { << >> }
    ELSE LET shorter == SegLists(n - 1)
         IN  shorter \cup { Append(l, g) : l \in { q \in shorter : Len(q) = n - 1 },
                                           g \in Segments }

RECURSIVE Concat(_)
\* the text made of the segments of l
Concat(l) == IF l = << >> THEN << >> ELSE Head(l) \o Concat(Tail(l))

\* the texts of the td, div, span and p elements of a page, in document order
NodeLists ==
    { << >>,
      << SegSp >>,
      << SegWord, SegGB \o SegX >>,
      << SegLow, SegX \o SegUS, SegGB >> }

\* no call of extractISINFromPage on a character-level page is in progress
NoExtraction ==
    [pc |-> "idle", segs |-> << >>, body |-> << >>, nodes |-> << >>,
     isin |-> Nothing, tried |-> << >>, returned |-> Nothing]


---------------------------------------------------------------------------
(* Initial state: the object after construction, the files on disk, the site *)

Init ==
    /\ pc = "run"
    /\ argv = << >>
    /\ exitCode = 0
    /\ variant = Newer
    /\ x = NoExtraction
    /\ inputFile \in InputFiles
    /\ companies = << >>
    /\ maxCompanies \in Caps
    /\ acmeSearch \in IF \E k \in 1..Len(inputFile.rows) : inputFile.rows[k] = Acme
                       THEN SearchOutcomes
                       ELSE { [kind |-> "links", links |-> << >>] }
    /\ matchesFile \in InitialMatches
    /\ jsonFile = NoJson
    /\ toProcess = << >>
    /\ i = 0
    /\ result = NewResult(Acme)
    /\ stockLinks = << >>
    /\ j = 1
    /\ visited = << >>
    /\ searched = << >>
    /\ results = << >>
    /\ session = NoSession
    /\ ioError = FALSE
    /\ mainError = NULL

---------------------------------------------------------------------------
(* Actions *)

Unwind(why) ==
    \* an exception that reaches run()'s catch block (lines 558-559); finally follows
    /\ mainError' = why
    /\ pc' = "close"

\* run() without the test of line 538
AfterLoad_NoEmptyCheck(n) == "initBrowser"

\* run(), lines 538-541: where run() goes with n loaded records
AfterLoad(n) == IF n = 0 THEN "close" ELSE "initBrowser"

\* run(), lines 531-546
RunLoad ==
    /\ pc = "run"
    /\ companies' = ReadCSV(inputFile)
    /\ pc' = AfterLoad(Len(companies'))
    /\ maxCompanies' = IF Len(companies') = 0
                       THEN maxCompanies
                       ELSE ClampMax(maxCompanies, Len(companies'))
    /\ UNCHANGED outerVars
    /\ UNCHANGED << toProcess, i, result, stockLinks, j, visited, searched,
                    results, matchesFile, jsonFile, session, ioError, acmeSearch, mainError >>

InitFaults == { "none", "launch", "createBrowserContext", "newPage", "setViewport" }

\* initBrowser, lines 166-188, stopped by the call named fault (if any)
InitBrowserSession(s, fault) ==
    LET id == s.made + 1
        launched == [s EXCEPT !.browser = "open",
                              !.launched = IF s.headless THEN "headless" ELSE "visible"]
        \* gurufocus_isin_matcher.js keeps the context in a local constant (line 53)
        withCtx  == [launched EXCEPT !.context = IF variant = Newer THEN id ELSE 0,
                                     !.liveContexts = @ \cup {id}, !.made = id]
        withPage == [withCtx EXCEPT !.page = id, !.inContext = id, !.livePages = @ \cup {id}]
    IN  CASE fault = "launch" -> s
          [] fault = "createBrowserContext" -> launched
          [] fault = "newPage" -> withCtx
          [] OTHER -> withPage

\* run(), line 549
InitBrowser ==
    /\ pc = "initBrowser"
    /\ \E fault \in InitFaults :
          /\ session' = InitBrowserSession(session, fault)
          /\ IF fault = "none"
             THEN pc' = "processCompanies" /\ UNCHANGED mainError
             ELSE Unwind(fault)
    /\ UNCHANGED outerVars
    /\ UNCHANGED << companies, maxCompanies, toProcess, i, result, stockLinks, j, visited,
                    searched, results, matchesFile, jsonFile, ioError, acmeSearch >>

\* processCompanies, lines 410-414: entry
ProcessCompaniesEnter ==
    /\ pc = "processCompanies"
    /\ toProcess' = CompaniesToProcess(companies, maxCompanies)
    /\ i' = 0
    /\ pc' = "loop"
    /\ UNCHANGED outerVars
    /\ UNCHANGED << companies, maxCompanies, result, stockLinks, j, visited, searched,
                    results, matchesFile, jsonFile, session, ioError, acmeSearch, mainError >>

\* processCompanies, lines 414-421: loop test and the choice to refresh
LoopHead ==
    /\ pc = "loop"
    /\ IF i < Len(toProcess)
       THEN \* gurufocus_isin_matcher.js has no refresh (lines 220-232)
            pc' = IF i > 0 /\ variant = Newer THEN "refresh" ELSE "processCompany"
       ELSE pc' = "saveResults"
    /\ UNCHANGED outerVars
    /\ UNCHANGED << companies, maxCompanies, toProcess, i, result, stockLinks, j, visited,
                    searched, results, matchesFile, jsonFile, session, ioError, acmeSearch, mainError >>

RefreshFaults == { "none", "page.close", "context.close", "createBrowserContext",
                   "newPage", "setViewport" }

\* refreshBrowserContext without the two close calls of lines 389-394
RefreshSession_NoClose(s, fault) ==
    LET id == s.made + 1
        withCtx  == [s EXCEPT !.context = id, !.liveContexts = @ \cup {id}, !.made = id]
        withPage == [withCtx EXCEPT !.page = id, !.inContext = id, !.livePages = @ \cup {id}]
    IN  CASE fault \in { "page.close", "context.close", "createBrowserContext" } -> s
          [] fault = "newPage" -> withCtx
          [] OTHER -> withPage

\* refreshBrowserContext, lines 385-405, stopped by the call named fault (if any)
RefreshSession(s, fault) ==
    LET id == s.made + 1
        pageClosed == IF s.page # 0 THEN [s EXCEPT !.livePages = @ \ {s.page}] ELSE s
        ctxClosed  == IF s.context # 0
                      THEN [pageClosed EXCEPT !.liveContexts = @ \ {s.context}]
                      ELSE pageClosed
        withCtx    == [ctxClosed EXCEPT !.context = id, !.liveContexts = @ \cup {id}, !.made = id]
        withPage   == [withCtx EXCEPT !.page = id, !.inContext = id, !.livePages = @ \cup {id}]
    IN  CASE fault = "page.close" -> s
          [] fault = "context.close" -> pageClosed
          [] fault = "createBrowserContext" -> ctxClosed
          [] fault = "newPage" -> withCtx
          [] OTHER -> withPage

\* processCompanies, lines 419-421
RefreshBrowserContext ==
    /\ pc = "refresh"
    /\ \E fault \in RefreshFaults :
          /\ session' = RefreshSession(session, fault)
          /\ IF fault = "none"
             THEN pc' = "processCompany" /\ UNCHANGED mainError
             ELSE Unwind(fault)
    /\ UNCHANGED outerVars
    /\ UNCHANGED << companies, maxCompanies, toProcess, i, result, stockLinks, j, visited,
                    searched, results, matchesFile, jsonFile, ioError, acmeSearch >>

\* processCompany, lines 327-346 and 373-379: the result object, the search, and
\* the outcomes that end the record at once
ProcessCompanySearch ==
    /\ pc = "processCompany"
    /\ LET company == toProcess[i + 1]
           s == SearchCompany(company.companyName)
           a == AfterSearch(NewResult(company), s)
       IN  /\ searched' = Append(searched, company.companyName)
           /\ stockLinks' = s.links
           /\ result' = a.result
           /\ pc' = a.pc
    /\ visited' = << >>
    /\ j' = 1
    /\ session' = [session EXCEPT !.usedContexts = Append(@, session.inContext),
                                  !.searchGotos = SearchGotos(toProcess[i + 1].companyName)]
    /\ UNCHANGED outerVars
    /\ UNCHANGED << companies, maxCompanies, toProcess, i, results, matchesFile, jsonFile,
                    ioError, acmeSearch, mainError >>

\* the loop of processCompany navigating again to a candidate whose
\* navigation gave no identifier
ProcessCompanyCheckLink_Retry ==
    /\ pc = "checkLink"
    /\ IF j <= Len(stockLinks)
       THEN LET link == stockLinks[j]
                found == ExtractISINFromPage(link.url)
                r == CheckLink(result, link, found)
                again == ~Truthy(found) /\ Len(visited) < 2 * j - 1
            IN  /\ visited' = Append(visited, link.url)
                /\ result' = r
                /\ IF r.status = "matched"
                   THEN pc' = "push" /\ j' = j
                   ELSE pc' = "checkLink" /\ j' = IF again THEN j ELSE j + 1
       ELSE /\ result' = [result EXCEPT !.status = "no_match"]
            /\ pc' = "push"
            /\ UNCHANGED << visited, j >>
    /\ UNCHANGED outerVars
    /\ UNCHANGED << companies, maxCompanies, toProcess, i, stockLinks, searched, results,
                    matchesFile, jsonFile, session, ioError, acmeSearch, mainError >>

\* processCompany, lines 349-371: the loop test, and either one iteration of the
\* loop over stockLinks or the statements after it
ProcessCompanyCheckLink ==
    /\ pc = "checkLink"
    /\ IF j <= Len(stockLinks)
       THEN LET link == stockLinks[j]
                r == CheckLink(result, link, ExtractISINFromPage(link.url))
            IN  /\ visited' = Append(visited, link.url)
                /\ result' = r
                /\ IF r.status = "matched"
                   THEN pc' = "push" /\ j' = j
                   ELSE pc' = "checkLink" /\ j' = j + 1
       ELSE /\ result' = [result EXCEPT !.status = "no_match"]
            /\ pc' = "push"
            /\ UNCHANGED << visited, j >>
    /\ UNCHANGED outerVars
    /\ UNCHANGED << companies, maxCompanies, toProcess, i, stockLinks, searched, results,
                    matchesFile, jsonFile, session, ioError, acmeSearch, mainError >>

\* processCompanies, lines 423-439: the push, the periodic save, the increment
PushResult ==
    /\ pc = "push"
    /\ results' = Push(results, result)
    /\ IF SaveDue(i + 1) /\ variant = Newer
       THEN \E w \in WriteOutcomes :
               LET saved == SaveMatchesCSV(results', matchesFile, w)
               IN  matchesFile' = saved.file /\ ioError' = (ioError \/ saved.threw)
       ELSE UNCHANGED << matchesFile, ioError >>
    /\ i' = i + 1
    /\ pc' = "loop"
    /\ UNCHANGED outerVars
    /\ UNCHANGED << companies, maxCompanies, toProcess, result, stockLinks, j, visited,
                    searched, jsonFile, session, acmeSearch, mainError >>

\* saveResults, lines 467-490 (run(), line 555)
SaveResults ==
    /\ pc = "saveResults"
    /\ \E wj \in WriteOutcomes, wc \in WriteOutcomes :
          /\ jsonFile' = WriteFile(jsonFile, << JsonOutput(results) >>, wj)
          /\ IF wj = "ok"
             THEN LET saved == SaveMatchesCSV(results, matchesFile, wc)
                  IN  matchesFile' = saved.file /\ ioError' = (ioError \/ saved.threw)
             ELSE \* the exception skips saveMatchesCSV (lines 479-489)
                  matchesFile' = matchesFile /\ ioError' = TRUE
    /\ pc' = "close"
    /\ UNCHANGED outerVars
    /\ UNCHANGED << companies, maxCompanies, toProcess, i, result, stockLinks, j, visited,
                    searched, results, session, acmeSearch, mainError >>

CloseFaults == { "none", "page.close", "context.close", "browser.close" }

\* close, lines 515-526, stopped by the call named fault (if any)
CloseSession(s, fault) ==
    LET \* gurufocus_isin_matcher.js closes the browser only (lines 293-297)
        pageClosed == IF s.page # 0 /\ variant = Newer
                      THEN [s EXCEPT !.livePages = @ \ {s.page}]
                      ELSE s
        ctxClosed  == IF s.context # 0 /\ variant = Newer
                      THEN [pageClosed EXCEPT !.liveContexts = @ \ {s.context}]
                      ELSE pageClosed
        allClosed  == IF s.browser # "null"
                      THEN [ctxClosed EXCEPT !.browser = "closed", !.liveContexts = {},
                                             !.livePages = {}]
                      ELSE ctxClosed
    IN  CASE fault = "page.close" -> s
          [] fault = "context.close" -> pageClosed
          [] fault = "browser.close" -> ctxClosed
          [] OTHER -> allClosed

\* run(), lines 560-562
Close ==
    /\ pc = "close"
    /\ \E fault \in CloseFaults :
          /\ fault = "page.close" => (session.page # 0 /\ variant = Newer)
          /\ fault = "context.close" => (session.context # 0 /\ variant = Newer)
          /\ fault = "browser.close" => session.browser # "null"
          /\ session' = [CloseSession(session, fault) EXCEPT !.closeThrew = fault]
    /\ pc' = "done"
    /\ UNCHANGED outerVars
    /\ UNCHANGED << companies, maxCompanies, toProcess, i, result, stockLinks, j, visited,
                    searched, results, matchesFile, jsonFile, ioError, acmeSearch, mainError >>

Next ==
    \/ RunLoad
    \/ InitBrowser
    \/ ProcessCompaniesEnter
    \/ LoopHead
    \/ RefreshBrowserContext
    \/ ProcessCompanySearch
    \/ ProcessCompanyCheckLink
    \/ PushResult
    \/ SaveResults
    \/ Close

Spec == Init /\ [][Next]_vars

---------------------------------------------------------------------------
(* The command line: node gurufocus_isin_matcher.js <words> *)

\* the words a command line is made of
CliWords == { "0", "2", "7", "abc", "--visible" }

\* process.argv from index 2 on: at most two words
Argvs ==
    { << >> } \cup { << a >> : a \in CliWords } \cup { << a, b >> : a, b \in CliWords }

\* the values maxCompanies takes on line 571
JsNull == [kind |-> "null", n |-> 0]
JsNaN == [kind |-> "NaN", n |-> 0]
JsNumber(n) == [kind |-> "number", n |-> n]

\* parseInt on a word
ParseInt(w) ==
    CASE w = "0" -> JsNumber(0) [] w = "2" -> JsNumber(2) [] w = "7" -> JsNumber(7)
      [] OTHER -> JsNaN

\* !v for a value of line 571: null, NaN and 0 are falsy
Falsy(v) == v.kind # "number" \/ v.n = 0

Includes(a, w) == \E k \in 1..Len(a) : a[k] = w

\* line 571: process.argv[2] ? parseInt(process.argv[2]) : null
CliMaxCompanies(a) == IF Len(a) >= 1 THEN ParseInt(a[1]) ELSE JsNull

\* line 572
CliHeadless(a) == ~Includes(a, "--visible")

\* line 597: maxCompanies === 0 ? null : maxCompanies, for a value that passed
\* line 574 (null is 0 in maxCompanies)
RunArgument(v) == IF v.kind = "number" /\ v.n = 0 THEN 0 ELSE v.n

InitCli ==
    /\ pc = "cli"
    /\ argv \in Argvs
    /\ exitCode = 0
    /\ variant \in Variants
    /\ x = NoExtraction
    /\ inputFile \in { Unreadable,
                       [readable |-> TRUE, rows |-> InputList(0, 1, Len(Catalogue))] }
    /\ companies = << >>
    /\ maxCompanies = 0
    /\ acmeSearch = [kind |-> "links", links |-> << Link(URL_GB), Link(URL_US) >>]
    /\ matchesFile = NoFile
    /\ jsonFile = NoJson
    /\ toProcess = << >>
    /\ i = 0
    /\ result = NewResult(Acme)
    /\ stockLinks = << >>
    /\ j = 1
    /\ visited = << >>
    /\ searched = << >>
    /\ results = << >>
    /\ session = NoSession
    /\ ioError = FALSE
    /\ mainError = NULL

\* lines 570-597: the usage text and process.exit(1), or the construction of
\* the matcher and the call of run()
CliMain ==
    /\ pc = "cli"
    /\ LET v == CliMaxCompanies(argv)
       IN  IF Falsy(v)
           THEN /\ exitCode' = 1
                /\ pc' = "exited"
                /\ UNCHANGED << session, maxCompanies >>
           ELSE /\ session' = Constructed(variant, IF CliHeadless(argv) THEN "true" ELSE "false")
                /\ maxCompanies' = RunArgument(v)
                /\ pc' = "run"
                /\ UNCHANGED exitCode
    /\ UNCHANGED << argv, variant, inputFile, x, companies, toProcess, i, result, stockLinks,
                    j, visited, searched, results, matchesFile, jsonFile, ioError,
                    acmeSearch, mainError >>

NextCli ==
    \/ CliMain
    \/ RunLoad
    \/ InitBrowser
    \/ ProcessCompaniesEnter
    \/ LoopHead
    \/ RefreshBrowserContext
    \/ ProcessCompanySearch
    \/ ProcessCompanyCheckLink
    \/ PushResult
    \/ SaveResults
    \/ Close

SpecCli == InitCli /\ [][NextCli]_vars

---------------------------------------------------------------------------
(* One call of extractISINFromPage, step by step *)

InitExtract ==
    /\ pc = "extract"
    /\ \E l \in SegLists(MaxSegs), ns \in NodeLists :
          x = [NoExtraction EXCEPT !.pc = "goto", !.segs = l, !.body = Concat(l),
                                   !.nodes = ns]
    /\ argv = << >>
    /\ exitCode = 0
    /\ variant = Newer
    /\ inputFile = Unreadable
    /\ companies = << >>
    /\ maxCompanies = 0
    /\ acmeSearch = [kind |-> "links", links |-> << >>]
    /\ matchesFile = NoFile
    /\ jsonFile = NoJson
    /\ toProcess = << >>
    /\ i = 0
    /\ result = NewResult(Acme)
    /\ stockLinks = << >>
    /\ j = 1
    /\ visited = << >>
    /\ searched = << >>
    /\ results = << >>
    /\ session = NoSession
    /\ ioError = FALSE
    /\ mainError = NULL

innerVars == << pc, argv, exitCode, variant, inputFile, companies, maxCompanies,
                toProcess, i, result, stockLinks, j, visited, searched, results,
                matchesFile, jsonFile, session, ioError, acmeSearch, mainError >>

\* what one method leaves in isin and in the log: got is what the evaluation
\* returned, Nothing when it threw (the catch blocks of lines 279, 291, 311)
AfterMethod(tier, got, threw) ==
    [x EXCEPT !.isin = IF threw THEN x.isin ELSE got,
              !.tried = Append(@, [tier |-> tier,
                                   got |-> IF threw THEN Nothing ELSE got,
                                   threw |-> threw])]

\* lines 266-267: page.goto and the wait; a failure reaches the outer catch,
\* which returns null (lines 318-321)
ExtractGoto ==
    /\ pc = "extract"
    /\ x.pc = "goto"
    /\ \E ok \in BOOLEAN :
          x' = IF ok THEN [x EXCEPT !.pc = "method1"]
                     ELSE [x EXCEPT !.pc = "done", !.returned = Nothing]
    /\ UNCHANGED innerVars

\* lines 272-281
ExtractMethod1 ==
    /\ pc = "extract"
    /\ x.pc = "method1"
    /\ \E threw \in BOOLEAN :
          x' = [AfterMethod(1, Method1(x.body), threw) EXCEPT !.pc = "method2"]
    /\ UNCHANGED innerVars

\* lines 283-294
ExtractMethod2 ==
    /\ pc = "extract"
    /\ x.pc = "method2"
    /\ IF NotFoundYet(x.isin)
       THEN \E threw \in BOOLEAN :
               x' = [AfterMethod(2, Method2(x.body), threw) EXCEPT !.pc = "method3"]
       ELSE x' = [x EXCEPT !.pc = "method3"]
    /\ UNCHANGED innerVars

\* lines 296-314
ExtractMethod3 ==
    /\ pc = "extract"
    /\ x.pc = "method3"
    /\ IF NotFoundYet(x.isin)
       THEN \E threw \in BOOLEAN :
               x' = [AfterMethod(3, Method3(x.nodes), threw) EXCEPT !.pc = "return"]
       ELSE x' = [x EXCEPT !.pc = "return"]
    /\ UNCHANGED innerVars

\* lines 316-317
ExtractReturn ==
    /\ pc = "extract"
    /\ x.pc = "return"
    /\ x' = [x EXCEPT !.pc = "done", !.returned = x.isin]
    /\ UNCHANGED innerVars

NextExtract ==
    \/ ExtractGoto
    \/ ExtractMethod1
    \/ ExtractMethod2
    \/ ExtractMethod3
    \/ ExtractReturn

SpecExtract == InitExtract /\ [][NextExtract]_vars

---------------------------------------------------------------------------
(* Properties *)

TerminalStatuses == { "matched", "no_match", "no_results", "error" }

\* the urls of the first n candidates, in list order
UrlsOf(links, n) == [ p \in 1..n |-> links[p].url ]

\* the position of the first candidate whose extracted identifier equals
\* expected, 0 when there is none
FirstMatch(links, expected) ==
    LET hits == { p \in 1..Len(links) : ExtractISINFromPage(links[p].url) = expected }
    IN  IF hits = {} THEN 0 ELSE CHOOSE p \in hits : \A q \in hits : p <= q

RECURSIVE LastFound(_, _)
\* the last non-empty extraction among the first n candidates, NULL when none
LastFound(links, n) ==
    IF n = 0 THEN NULL
    ELSE IF Truthy(ExtractISINFromPage(links[n].url))
         THEN ExtractISINFromPage(links[n].url)
         ELSE LastFound(links, n - 1)

\* the number of records the batch is to process
ExpectedCount ==
    IF maxCompanies # 0 THEN Min(maxCompanies, Len(companies)) ELSE Len(companies)

Matched(rs) == { k \in 1..Len(rs) : rs[k].status = "matched" }

RECURSIVE SplitLines(_, _, _)
\* the lines of a file content: the token runs between "\n" tokens
SplitLines(content, k, line) ==
    IF k > Len(content) THEN << line >>
    ELSE IF content[k] = "\n"
         THEN << line >> \o SplitLines(content, k + 1, << >>)
         ELSE SplitLines(content, k + 1, Append(line, content[k]))

Lines(content) == SplitLines(content, 1, << >>)

RECURSIVE MatchedRows(_, _)
\* one three-field row per matched record among rs[k..], in result order
MatchedRows(rs, k) ==
    IF k > Len(rs) THEN << >>
    ELSE IF rs[k].status = "matched"
         THEN << << rs[k].companyName, ",", rs[k].expectedISIN, ",", rs[k].matchingURL >> >>
              \o MatchedRows(rs, k + 1)
         ELSE MatchedRows(rs, k + 1)

\* the tabular dump of rs: the header line, then the rows of the matched records
ExpectedLines(rs) == << << "Company Name,ISIN Code,GuruFocus URL" >> >> \o MatchedRows(rs, 1)

\* the search of the current record has been made
SearchMade == Len(searched) > 0

\* C1: when the first candidate whose extracted identifier equals the expected
\* one is at position k, the candidates are visited in list order and never
\* beyond k, and once the loop is left the record is 'matched' with the k-th
\* url after exactly k extractions; that record is the one appended.
C1_FirstMatchWins ==
    LET k == FirstMatch(stockLinks, result.expectedISIN)
    IN  k > 0 =>
          /\ Len(visited) <= k
          /\ visited = UrlsOf(stockLinks, Len(visited))
          /\ pc # "checkLink" =>
                /\ Len(visited) = k
                /\ result.status = "matched"
                /\ result.matchingURL = stockLinks[k].url
          /\ pc \notin { "checkLink", "push" } =>
                /\ results # << >>
                /\ results[Len(results)] = result

\* C1 witness: a match at the third candidate after one differing identifier
\* and one page without identifier
C1_Witness ==
    /\ pc = "push"
    /\ Len(stockLinks) = 3
    /\ FirstMatch(stockLinks, result.expectedISIN) = 3
    /\ Truthy(ExtractISINFromPage(stockLinks[1].url))
    /\ ~Truthy(ExtractISINFromPage(stockLinks[2].url))
    /\ result.status = "matched"
    /\ visited = UrlsOf(stockLinks, 3)

\* C2: when the search yields an empty candidate list, the record is
\* 'no_results' and extractISINFromPage is never invoked for it.
C2_EmptySearchNoResults ==
    ( /\ SearchMade
      /\ ~HasLoneSurrogate(result.companyName)
      /\ SiteSearch(result.companyName).links = << >> )
    => /\ result.status = "no_results"
       /\ visited = << >>
       /\ pc # "checkLink"

\* C2 witness: the site answers the search with no link, and the record is
\* about to be appended
C2_Witness ==
    /\ pc = "push"
    /\ SearchMade
    /\ ~HasLoneSurrogate(result.companyName)
    /\ SiteSearch(result.companyName) = [kind |-> "links", links |-> << >>]
    /\ result.status = "no_results"

\* C3: for a non-empty candidate list without any equal identifier, once the
\* loop is left the record is 'no_match', every candidate has been visited, and
\* foundISIN is the last non-empty extraction in list order (null if none).
C3_NoMatchKeepsLastFound ==
    ( /\ pc # "checkLink"
      /\ Len(stockLinks) > 0
      /\ FirstMatch(stockLinks, result.expectedISIN) = 0 )
    => /\ result.status = "no_match"
       /\ visited = UrlsOf(stockLinks, Len(stockLinks))
       /\ result.foundISIN = LastFound(stockLinks, Len(stockLinks))
       /\ result.matchingURL = NULL

\* C3 witness: two differing identifiers, then a page without identifier
C3_Witness ==
    /\ pc = "push"
    /\ Len(stockLinks) = 3
    /\ FirstMatch(stockLinks, result.expectedISIN) = 0
    /\ ExtractISINFromPage(stockLinks[1].url) = ISIN_GB
    /\ ExtractISINFromPage(stockLinks[2].url) = ISIN_FR
    /\ ExtractISINFromPage(stockLinks[3].url) = NULL
    /\ result.foundISIN = ISIN_FR

\* C4: the results hold exactly one record per processed input record, each
\* with a terminal status; a batch that runs to its end has processed the
\* first ExpectedCount records; 'not_found' is in no appended record and in no
\* record of the structured dump.
C4_OneTerminalRecordPerInput ==
    /\ Len(results) = i
    /\ Len(results) <= ExpectedCount
    /\ \A k \in 1..Len(results) :
          /\ results[k].companyName = companies[k].companyName
          /\ results[k].expectedISIN = companies[k].isinCode
          /\ results[k].status \in TerminalStatuses
    /\ pc = "saveResults" => Len(results) = ExpectedCount
    /\ jsonFile # NoJson =>
          /\ Len(jsonFile[1].results) = ExpectedCount
          /\ \A k \in 1..Len(jsonFile[1].results) :
                jsonFile[1].results[k].status \in TerminalStatuses

\* C4 witness: an uncapped batch past the periodic save has ended, with an
\* error, a search without results and a checked candidate list among its records
C4_Witness ==
    /\ pc = "done"
    /\ mainError = NULL
    /\ maxCompanies = 0
    /\ Len(results) > SaveEvery
    /\ jsonFile # NoJson
    /\ \E a, b, c \in 1..Len(results) :
          /\ results[a].status = "error"
          /\ results[b].status = "no_results"
          /\ results[c].status \in { "matched", "no_match" }

\* C5: in every record of the results, matchingURL is set if and only if the
\* status is 'matched'.
C5_UrlIffMatched ==
    \A k \in 1..Len(results) :
        (results[k].matchingURL # NULL) <=> (results[k].status = "matched")

\* C5 witness: the results hold a matched record and a record whose candidates
\* yielded an identifier without matching
C5_Witness ==
    \E a, b \in 1..Len(results) :
        /\ results[a].status = "matched"
        /\ results[a].matchingURL # NULL
        /\ results[b].status = "no_match"
        /\ results[b].foundISIN # NULL

\* C6: a failure raised while the batch driver handles one record is recovered
\* at the record boundary, so no exception of the loop reaches run() and a
\* batch that was started ends with one record per record to process.
C6_RecordFailureRecovered ==
    ( pc \in { "close", "done" } /\ Len(toProcess) > 0 )
    => /\ mainError = NULL
       /\ Len(results) = Len(toProcess)

\* the search step of the current record has failed inside searchCompany's try
SearchStepFailed ==
    /\ SearchMade
    /\ ~HasLoneSurrogate(result.companyName)
    /\ SiteSearch(result.companyName).kind \in { "gotoThrows", "evaluateThrows" }

\* C7 (as claimed): when the search navigation or the link evaluation throws,
\* the record ends with status 'error' and the failure text.
C7_SearchFailureIsError ==
    ( SearchStepFailed /\ pc = "push" )
    => /\ result.status = "error"
       /\ result.error # NULL

\* C7 (amended): when the search navigation or the link evaluation throws,
\* searchCompany returns the empty list: the record is 'no_results', carries no
\* error text and no candidate is visited.
C7_SearchFailureIsNoResults ==
    SearchStepFailed
    => /\ result.status = "no_results"
       /\ result.error = NULL
       /\ visited = << >>
       /\ pc # "checkLink"

\* C7 witness: the link evaluation threw and the record is about to be appended
C7_Witness ==
    /\ pc = "push"
    /\ SearchStepFailed
    /\ SiteSearch(result.companyName).kind = "evaluateThrows"
    /\ result.status = "no_results"

\* C8: the i-th element of the results is the record of the i-th input record,
\* searches are issued in input order, and the search of a record is issued
\* only when the records of all earlier input records have been appended.
C8_InputOrder ==
    /\ \A k \in 1..Len(results) :
          /\ results[k].companyName = companies[k].companyName
          /\ results[k].expectedISIN = companies[k].isinCode
    /\ \A k \in 1..Len(searched) : searched[k] = companies[k].companyName
    /\ Len(searched) \in { Len(results), Len(results) + 1 }
    /\ (Len(searched) = Len(results) + 1) <=> (pc \in { "checkLink", "push" })

\* C8 witness: the candidates of the fourth record are being checked, after
\* the records of three different companies
C8_Witness ==
    /\ pc = "checkLink"
    /\ Len(results) = 3
    /\ results[1].companyName # results[2].companyName
    /\ results[2].companyName # results[3].companyName
    /\ Len(searched) = 4

\* the batch stands between the push of a 10th, 20th, ... record and that of
\* the next record
AfterPeriodicSave ==
    /\ i > 0
    /\ i % SaveEvery = 0
    /\ pc \in { "loop", "refresh", "processCompany", "checkLink", "push" }

\* C9 (as claimed, for writes that succeed): after every 10th completed
\* record the matches file holds the header and exactly the rows of the
\* matched records among the first i results, however many are matched.
C9_PeriodicSaveAlways ==
    ( AfterPeriodicSave /\ ~ioError )
    => Lines(matchesFile) = ExpectedLines(results)

\* C9 (amended): after every 10th completed record, if at least one of the
\* first i results is matched and the write succeeds, the file holds the header
\* and exactly the rows of the matched records among them; if none is matched
\* the file is not written and keeps what it held before the run.
C9_PeriodicSaveWhenMatched ==
    AfterPeriodicSave
    => /\ (Matched(results) # {} /\ ~ioError)
             => Lines(matchesFile) = ExpectedLines(results)
       /\ Matched(results) = {}
             => (matchesFile \in InitialMatches /\ ~ioError)

\* C9 witness: after the 10th record, some but not all records are matched and
\* the file left by an earlier run has been replaced
C9_Witness ==
    /\ AfterPeriodicSave
    /\ pc = "loop"
    /\ ~ioError
    /\ Cardinality(Matched(results)) \in 2..(Len(results) - 1)
    /\ Len(Lines(matchesFile)) = Cardinality(Matched(results)) + 1
    /\ matchesFile # StaleMatches

\* saveResults has run
Completed == pc \in { "close", "done" } /\ mainError = NULL /\ Len(companies) > 0

\* C10 (as claimed, for writes that succeed): on completion the tabular dump
\* holds the header and one row per matched record in result order, so m + 1
\* lines for m matched records, m = 0 included.
C10_DumpAlways ==
    ( Completed /\ ~ioError )
    => /\ Lines(matchesFile) = ExpectedLines(results)
       /\ Len(Lines(matchesFile)) = Cardinality(Matched(results)) + 1

\* C10 (amended): on completion of a batch with m >= 1 matched records whose
\* writes succeed, the tabular dump holds the header and one row per matched
\* record in result order and no other row; with m = 0 the dump is not
\* written and keeps what it held before the run.
C10_DumpWhenMatched ==
    Completed
    => /\ (Matched(results) # {} /\ ~ioError)
             => /\ Lines(matchesFile) = ExpectedLines(results)
                /\ Len(Lines(matchesFile)) = Cardinality(Matched(results)) + 1
       /\ Matched(results) = {} => matchesFile \in InitialMatches

\* C10 witness: a completed batch with matched and unmatched records whose dump
\* has one line per matched record after the header
C10_Witness ==
    /\ Completed
    /\ ~ioError
    /\ Matched(results) # {}
    /\ Cardinality(Matched(results)) < Len(results)
    /\ Len(Lines(matchesFile)) = Cardinality(Matched(results)) + 1

\* the number of records of rs with status st
StatusCount(rs, st) == Cardinality({ k \in 1..Len(rs) : rs[k].status = st })

\* C11: in the structured dump totalProcessed is the length of the results
\* array, the array is the full ordered collection of records, each of the
\* four per-status counts is the number of records with that status, and the
\* four counts add up to totalProcessed.
C11_DumpCountsConsistent ==
    jsonFile # NoJson =>
        LET d == jsonFile[1]
        IN  /\ d.results = results
            /\ d.totalProcessed = Len(d.results)
            /\ d.matched = StatusCount(d.results, "matched")
            /\ d.notMatched = StatusCount(d.results, "no_match")
            /\ d.noResults = StatusCount(d.results, "no_results")
            /\ d.errors = StatusCount(d.results, "error")
            /\ d.matched + d.notMatched + d.noResults + d.errors = d.totalProcessed

\* C11 witness: a dump has been written whose four counts are all positive
C11_Witness ==
    /\ jsonFile # NoJson
    /\ jsonFile[1].matched > 0
    /\ jsonFile[1].notMatched > 0
    /\ jsonFile[1].noResults > 0
    /\ jsonFile[1].errors > 0
    /\ jsonFile[1].totalProcessed = MaxCompanies

\* the positions of the segments of l that are an identifier label with its colon
LabelPositions(l) == { k \in 1..Len(l) : l[k] \in { SegLabel, SegLabelLow } }

RECURSIVE AfterSpaceSegs(_, _)
\* the first position from k on whose segment is not white space
AfterSpaceSegs(l, k) ==
    IF k <= Len(l) /\ l[k] = SegSp THEN AfterSpaceSegs(l, k + 1) ELSE k

\* the identifier that the only label of the text introduces, Nothing when the
\* text has no label, several labels, or a label followed by something else
LabeledISIN(l) ==
    IF Cardinality(LabelPositions(l)) # 1 THEN Nothing
    ELSE LET k == AfterSpaceSegs(l, Least(LabelPositions(l)) + 1)
         IN  IF k <= Len(l) /\ l[k] \in { SegUS, SegGB } THEN l[k] ELSE Nothing

\* the first non-empty yield of the log, Nothing when there is none
FirstYield(tried) ==
    LET hits == { k \in 1..Len(tried) : tried[k].got # Nothing }
    IN  IF hits = {} THEN Nothing ELSE tried[Least(hits)].got

\* C12: the three methods are a strict priority chain: they are attempted in
\* the order 1, 2, 3, a method is attempted only when every earlier one yielded
\* nothing, and the call returns the first yield; so when the only label of the
\* page text introduces an identifier and the first method runs normally, that
\* identifier is returned, whatever bare identifiers stand elsewhere in the text.
C12_PriorityChain ==
    /\ \A k \in 1..Len(x.tried) :
          /\ x.tried[k].tier = k
          /\ \A m \in 1..(k - 1) : x.tried[m].got = Nothing
    /\ x.isin = FirstYield(x.tried)
    /\ (x.pc = "done" /\ x.tried # << >>) =>
          /\ x.returned = FirstYield(x.tried)
          /\ (LabeledISIN(x.segs) # Nothing /\ ~x.tried[1].threw) =>
                /\ x.returned = LabeledISIN(x.segs)
                /\ Len(x.tried) = 1

\* C12 witness: a different bare identifier stands before the labeled one, and
\* the labeled one has been returned after the first method alone
C12_Witness ==
    /\ x.pc = "done"
    /\ x.segs = << SegGB, SegLabel, SegUS >>
    /\ Method2(x.body) = SegGB
    /\ Len(x.tried) = 1
    /\ x.returned = SegUS

\* v has the shape of an identifier: two uppercase letters, then ten uppercase
\* letters or digits
WellFormedISIN(v) ==
    /\ Len(v) = CodeLen
    /\ \A k \in 1..CodeLetters : v[k] \in UpperLetters
    /\ \A k \in (CodeLetters + 1)..CodeLen : v[k] \in UpperLetters \cup Digits

\* C13: extractISINFromPage returns nothing or a well-formed identifier; a
\* value holding a lowercase character is never returned.
C13_ReturnsNothingOrUppercaseCode ==
    x.pc = "done" =>
        \/ x.returned = Nothing
        \/ /\ WellFormedISIN(x.returned)
           /\ \A k \in 1..Len(x.returned) : x.returned[k] \notin LowerLetters

\* the text of a token cut at its commas and double quotes, which stand as
\* pieces of their own
Pieces(tok) ==
    CASE tok = URL_FR -> << "https://www.gurufocus.com/stock/XPAR:OLD", ",", "PA/summary" >>
      [] tok = CsvHeader[1] -> << "Company Name", ",", "ISIN Code", ",", "GuruFocus URL" >>
      [] OTHER -> << tok >>

RECURSIVE LinePieces(_)
\* the text of a line of tokens, in pieces
LinePieces(line) ==
    IF line = << >> THEN << >> ELSE Pieces(Head(line)) \o LinePieces(Tail(line))

RECURSIVE ParseFields(_, _, _, _, _)
\* a reader of comma-separated lines: the fields of ps[k..] after the fields
\* acc and the begun field, where a comma outside double quotes separates
\* fields and a doubled double quote inside them stands for one
ParseFields(ps, k, field, quoted, acc) ==
    IF k > Len(ps) THEN Append(acc, field)
    ELSE IF ps[k] = "\""
         THEN IF quoted /\ k < Len(ps) /\ ps[k + 1] = "\""
              THEN ParseFields(ps, k + 2, Append(field, "\""), quoted, acc)
              ELSE ParseFields(ps, k + 1, field, ~quoted, acc)
         ELSE IF ps[k] = "," /\ ~quoted
              THEN ParseFields(ps, k + 1, << >>, FALSE, Append(acc, field))
              ELSE ParseFields(ps, k + 1, Append(field, ps[k]), quoted, acc)

Fields(line) == ParseFields(LinePieces(line), 1, << >>, FALSE, << >>)

\* C14: every data row of a matches file written without failure reads back
\* as exactly three fields, the company name, the expected identifier and the
\* url of its matched record, also when a value holds a comma or a quote.
C14_RowsReadBackAsThreeFields ==
    ( ~ioError /\ matchesFile \notin InitialMatches )
    => LET ls == Lines(matchesFile)
           ms == SelectIdx(results, 1, "matched")
       IN  \A k \in 1..Len(ms) :
              k + 1 <= Len(ls) =>
                 Fields(ls[k + 1]) = << Pieces(results[ms[k]].companyName),
                                        Pieces(results[ms[k]].expectedISIN),
                                        Pieces(results[ms[k]].matchingURL) >>

\* the number of records a batch over n records with cap k is to process,
\* where 0 stands for no cap
CapCount(k, n) == IF k # 0 THEN Min(k, n) ELSE n

\* the loop of processCompanies has been entered
InBatch == pc \in { "loop", "refresh", "processCompany", "checkLink", "push", "saveResults" }

\* C15: with n input records and cap K the driver processes exactly the first
\* min(K, n) records in input order, all n without a cap: run() keeps that
\* number when it clamps the cap, the records to process are the first
\* min(K, n) input records, no record beyond them is ever searched, and at the
\* end of the loop every one of them has been searched and has its record.
C15_FirstRecordsUpToCap ==
    /\ [][ pc = "run" =>
             CapCount(maxCompanies', Len(companies'))
                = CapCount(maxCompanies, Len(ReadCSV(inputFile))) ]_vars
    /\ [][ pc # "run" => (maxCompanies' = maxCompanies /\ companies' = companies) ]_vars
    /\ []( /\ InBatch =>
                toProcess = SubSeq(companies, 1, CapCount(maxCompanies, Len(companies)))
           /\ Len(searched) <= CapCount(maxCompanies, Len(companies))
           /\ \A k \in 1..Len(searched) : searched[k] = companies[k].companyName
           /\ pc = "saveResults" =>
                /\ Len(searched) = CapCount(maxCompanies, Len(companies))
                /\ Len(results) = CapCount(maxCompanies, Len(companies)) )

\* C15 witness: a batch capped at 2 over a longer input has ended its loop
\* after the searches of the first two records
C15_Witness ==
    /\ pc = "saveResults"
    /\ maxCompanies = 2
    /\ Len(companies) = MaxCompanies
    /\ companies[1] # companies[2]
    /\ searched = << companies[1].companyName, companies[2].companyName >>
    /\ Len(results) = 2

\* the words that are a record count
CountWords == { "0", "2", "7" }

\* the command line has been handled
CliHandled == pc # "cli"

\* C16: the command line shows its usage and exits with code 1 when the record
\* count is missing, and does not exit when a record count is given; with the
\* count 0 it calls run() without a cap.
C16_ExitOnlyWithoutCount ==
    CliHandled =>
        /\ argv = << >> => (exitCode = 1 /\ pc = "exited")
        /\ (argv # << >> /\ argv[1] \in CountWords) => (exitCode = 0 /\ pc # "exited")
        /\ (argv # << >> /\ argv[1] = "0") => maxCompanies = 0

\* C17: the browser is launched visible exactly when --visible is among the
\* words of the command line, headless otherwise: the constructor stores the
\* value computed by the command line, and initBrowser hands it to launch.
C17_VisibleIffFlag ==
    /\ pc \notin { "cli", "exited" } => session.headless = CliHeadless(argv)
    /\ session.launched # "no" =>
          (session.launched = "visible" <=> Includes(argv, "--visible"))

\* C18: when the input file cannot be read, run() ends before any processing:
\* no browser is launched, no search and no extraction is made, no record is
\* appended, no output file is written, and no exception reaches run()'s catch.
C18_LoadFailureAborts ==
    ~inputFile.readable =>
        /\ pc \in { "run", "close", "done" }
        /\ companies = << >>
        /\ session.browser = "null"
        /\ session.launched = "no"
        /\ session.made = 0
        /\ searched = << >>
        /\ visited = << >>
        /\ results = << >>
        /\ jsonFile = NoJson
        /\ matchesFile \in InitialMatches
        /\ ~ioError
        /\ mainError = NULL

\* C18 witness: run() has returned on a file that could not be read, over a
\* matches file left by an earlier run
C18_Witness ==
    /\ ~inputFile.readable
    /\ pc = "done"
    /\ matchesFile = StaleMatches

\* the candidate about to be checked is one on which page.goto fails
AtFailingCandidate ==
    /\ pc = "checkLink"
    /\ j <= Len(stockLinks)
    /\ ~Page(stockLinks[j].url).goto

\* a candidate on which page.goto failed has been visited for the current record
VisitedFailing == \E k \in 1..Len(visited) : ~Page(visited[k]).goto

\* C19: a navigation failure on a candidate page counts as an absent
\* identifier: extractISINFromPage returns nothing, the step leaves the record
\* as it was and goes on to the next candidate, and a later candidate whose
\* identifier equals the expected one still ends the record as 'matched'.
C19_NavigationFailureSkipsCandidate ==
    /\ [][ AtFailingCandidate =>
             /\ ExtractISINFromPage(stockLinks[j].url) = NULL
             /\ result' = result
             /\ visited' = Append(visited, stockLinks[j].url)
             /\ j' = j + 1
             /\ pc' = "checkLink" ]_vars
    /\ []( ( /\ pc = "push"
             /\ VisitedFailing
             /\ \E k \in 1..Len(stockLinks) :
                   /\ Page(stockLinks[k].url).goto
                   /\ ExtractISINFromPage(stockLinks[k].url) = result.expectedISIN )
           => /\ result.status = "matched"
              /\ result.foundISIN = result.expectedISIN
              /\ Page(result.matchingURL).goto )

\* C19 witness: the navigation failed on the first candidate and the second
\* candidate matched
C19_Witness ==
    /\ pc = "push"
    /\ Len(stockLinks) >= 2
    /\ visited = << URL_SLOW, URL_US >>
    /\ result.status = "matched"
    /\ result.matchingURL = URL_US

\* a record is being handled: between the refresh and the push of its record
InRecord == pc \in { "processCompany", "checkLink", "push" }

\* C20: at most one browser context and one page made by the matcher are live
\* at any time, the refresh before a record leaves live only the context it
\* has made, and every search is made on a page of a context in which no
\* earlier record was searched.
C20_OneFreshContextPerRecord ==
    /\ Cardinality(session.liveContexts) <= 1
    /\ Cardinality(session.livePages) <= 1
    /\ InRecord =>
          /\ session.liveContexts = { session.context }
          /\ session.livePages = { session.page }
          /\ session.inContext = session.context
    /\ Len(session.usedContexts) = Len(searched)
    /\ \A a \in 1..Len(session.usedContexts) :
          /\ session.usedContexts[a] # 0
          /\ \A b \in 1..Len(session.usedContexts) :
                a # b => session.usedContexts[a] # session.usedContexts[b]

\* C20 witness: the third record is searched in the third context, the only
\* one that is live
C20_Witness ==
    /\ pc = "checkLink"
    /\ Len(searched) = 3
    /\ session.usedContexts = << 1, 2, 3 >>
    /\ session.liveContexts = { 3 }

\* the code pattern matches t at p and the match is a token of its own: no
\* uppercase letter or digit stands right before or right after it
StandaloneAt(t, p) ==
    /\ CodeAt(t, p, FALSE)
    /\ p = 1 \/ t[p - 1] \notin UpperLetters \cup Digits
    /\ p + CodeLen > Len(t) \/ t[p + CodeLen] \notin UpperLetters \cup Digits

\* the first standalone occurrence of the code pattern in t, Nothing when none
FirstStandalone(t) ==
    LET hits == { p \in 1..Len(t) : StandaloneAt(t, p) }
    IN  IF hits = {} THEN Nothing
        ELSE SubSeq(t, Least(hits), Least(hits) + CodeLen - 1)

\* C21: what Method 2 yields is the first standalone occurrence of the code
\* pattern in the page text, and nothing when the text has none: a run of 12
\* characters inside a longer alphanumeric token is not yielded.
C21_Method2YieldsStandalone ==
    \A k \in 1..Len(x.tried) :
        (x.tried[k].tier = 2 /\ ~x.tried[k].threw)
        => x.tried[k].got = FirstStandalone(x.body)

\* the search of the current record is over
SearchDone == pc \in { "checkLink", "push" }

\* the number of positions of the sequence s that hold u
Occurrences(s, u) == Cardinality({ k \in 1..Len(s) : s[k] = u })

\* C22 (as claimed): in the handling of one record the navigation to the
\* search url is made exactly once and no candidate url is navigated to twice.
C22_EachUrlOnce ==
    SearchDone =>
        /\ session.searchGotos = 1
        /\ \A u \in Urls : Occurrences(visited, u) <= 1

\* C22 (amended): no step is retried: searchCompany is called once per record
\* and navigates to the search url once, or not at all when the url cannot be
\* built from the name; the k-th extraction of a record is on the k-th
\* candidate of the list, so each candidate is navigated to at most once and a
\* url is navigated to at most as often as the list holds it, whether or not a
\* navigation failed.
C22_NoStepRetried ==
    /\ Len(searched) - Len(results) \in { 0, 1 }
    /\ session.searchGotos <= 1
    /\ SearchDone =>
          /\ Len(searched) = Len(results) + 1
          /\ (session.searchGotos = 0) <=> HasLoneSurrogate(result.companyName)
    /\ Len(visited) <= Len(stockLinks)
    /\ visited = UrlsOf(stockLinks, Len(visited))
    /\ \A u \in Urls :
          Occurrences(visited, u) <= Occurrences(UrlsOf(stockLinks, Len(stockLinks)), u)

\* C22 witness: the list holds twice a url whose navigation fails; it has been
\* navigated to once per listing and the record is about to be appended
C22_Witness ==
    /\ pc = "push"
    /\ session.searchGotos = 1
    /\ UrlsOf(stockLinks, Len(stockLinks)) = << URL_SLOW, URL_NONE, URL_SLOW >>
    /\ visited = << URL_SLOW, URL_NONE, URL_SLOW >>
    /\ result.status = "no_match"

\* run() has been left, by return or by an exception thrown in its finally block
RunLeft == pc = "done"

\* C23: whenever run() has been left, a browser that was launched is closed,
\* unless browser.close itself threw, also after a failure while closing the
\* page or the context; and close() returns normally when no browser was
\* launched.
C23_LaunchedBrowserClosed ==
    RunLeft =>
        /\ (session.launched # "no" /\ session.closeThrew # "browser.close")
              => session.browser = "closed"
        /\ session.launched = "no"
              => (session.closeThrew = "none" /\ session.browser = "null")

=============================================================================
